---- MODULE Spec2Model ----
(***************************************************************************)
(* A model of the symbolic expression engine of symbolize.core:            *)
(* reification (toast), environment reconstruction (build_env), the        *)
(* evaluator (asteval), the unparser, the Node facade with its             *)
(* concreteness check and partial evaluation, and the capture-avoiding     *)
(* lambda lifter (free_vars, fresh, make_lambda).                          *)
(*                                                                         *)
(* AST nodes are objects with identity: they live in `heap`, a sequence    *)
(* indexed by allocation order, and refer to their children by index.      *)
(* Strings are sequences of one-character strings, so that formatting,     *)
(* parsing, rstrip and unparse are computed rather than assumed.           *)
(***************************************************************************)
EXTENDS Integers, Sequences, FiniteSets, TLC

VARIABLES
  heap,     \* the AST node objects, in allocation order
  counter,  \* the next value of toast's _counter
  sets,     \* how many times Node.value was assigned
  log,      \* the latest consecutive evaluations of one tree
  eqres,    \* the latest comparison
  lam,      \* the latest application of make_lambda
  fr,       \* the latest application of fresh
  benv      \* the latest environment built for an evaluation

vars == <<heap, counter, sets, log, eqres, lam, fr, benv>>

(***************************************************************************)
(* Bounds of the model.                                                    *)
(***************************************************************************)
MaxNodes == 4
MaxArgs == 1
MaxSets == 1
MaxLog == 2
MaxCounter == 2
MaxParams == 2
MaxTaken == 3
MaxCaptured == 2

(***************************************************************************)
(* Strings.                                                                *)
(***************************************************************************)
DigitSeq == <<"0", "1", "2", "3", "4", "5", "6", "7", "8", "9">>

Digits == {DigitSeq[i] : i \in 1..10}

\* str(n) / f"{n}" for a natural number n
RECURSIVE IntToStr(_)
IntToStr(n) ==
  IF n < 10 THEN <<DigitSeq[n + 1]>>
  ELSE IntToStr(n \div 10) \o <<DigitSeq[(n % 10) + 1]>>

\* s.rstrip('0123456789')
RECURSIVE rstrip(_)
rstrip(s) ==
  IF s = <<>> \/ s[Len(s)] \notin Digits THEN s
  ELSE rstrip(SubSeq(s, 1, Len(s) - 1))

\* ", ".join(parts)
RECURSIVE Join(_)
Join(parts) ==
  IF parts = <<>> THEN <<>>
  ELSE IF Len(parts) = 1 THEN parts[1]
  ELSE parts[1] \o <<",", " ">> \o Join(Tail(parts))

\* position of the first occurrence of character c in s at or after i, 0 if none
RECURSIVE Find(_, _, _)
Find(s, c, i) ==
  IF i > Len(s) THEN 0
  ELSE IF s[i] = c THEN i
  ELSE Find(s, c, i + 1)

(***************************************************************************)
(* Host values.  Every value is a record with a type tag t.                *)
(***************************************************************************)
Unset == [t |-> "unset"]                 \* the leaf has no _value attribute
None == [t |-> "None"]
IntV(n) == [t |-> "int", n |-> n]
StrV(s) == [t |-> "str", s |-> s]
Obj == [t |-> "obj"]                     \* an opaque, non-callable host object
Dbl == [t |-> "lambda", code |-> "dbl"]  \* the host closure lambda v: v * 2
Abs == [t |-> "builtin", name |-> "abs"] \* the builtin abs
NodeV(id) == [t |-> "Node", ast |-> id]  \* a Node wrapping heap[id]
TmpNode == NodeV(0)                      \* a Node built during an evaluation
NameError == [t |-> "NameError"]
TypeError == [t |-> "TypeError"]

IsError(v) == v.t \in {"NameError", "TypeError"}

\* a closure obtained by evaluating a Lambda node: its code, and the locals
\* of the function it was created in (empty at the top level)
Closure(id, env) == [t |-> "lambda", code |-> "ast", ast |-> id, env |-> env]

(***************************************************************************)
(* AST nodes.                                                              *)
(***************************************************************************)
Name(id, syn, value) ==
  [kind |-> "Name", id |-> id, syn |-> syn, value |-> value]
Constant(n) == [kind |-> "Constant", n |-> n, value |-> Unset]
Call(func, args) ==
  [kind |-> "Call", func |-> func, args |-> args, value |-> Unset]
BinOp(left, right) ==
  [kind |-> "BinOp", left |-> left, right |-> right, value |-> Unset]
Lambda(params, body) ==
  [kind |-> "Lambda", params |-> params, body |-> body, value |-> Unset]

\* ast.iter_child_nodes(n) restricted to ast.expr children, in field order
ExprChildren(n) ==
  CASE n.kind = "Call" -> <<n.func>> \o n.args
    [] n.kind = "BinOp" -> <<n.left, n.right>>
    [] n.kind = "Lambda" -> <<n.body>>
    [] OTHER -> <<>>

(***************************************************************************)
(* Reifier.  toast(s) of ast_utils.py, on a heap h with name counter c.    *)
(* The result is the new heap, the new counter and the index of the node.  *)
(***************************************************************************)
LambdaKw == <<"l", "a", "m", "b", "d", "a", " ">>

\* ast.parse(s, mode='eval').body for the expression texts the model uses:
\* an identifier, or "lambda <param>: <body>".  The nodes are appended to h.
RECURSIVE parse(_, _)
parse(h, s) ==
  IF Len(s) > 7 /\ SubSeq(s, 1, 7) = LambdaKw
  THEN LET colon == Find(s, ":", 8)
           param == SubSeq(s, 8, colon - 1)
           b == parse(h, SubSeq(s, colon + 2, Len(s)))
       IN [h |-> Append(b.h, Lambda(<<param>>, b.id)), id |-> Len(b.h) + 1]
  ELSE [h |-> Append(h, Name(s, FALSE, Unset)), id |-> Len(h) + 1]

toast(h, c, s) ==
  CASE s.t = "Node" -> [h |-> h, c |-> c, id |-> s.ast]
    [] s.t = "str" -> LET p == parse(h, s.s) IN [h |-> p.h, c |-> c, id |-> p.id]
    [] s.t = "int" -> [h |-> Append(h, Constant(s.n)), c |-> c, id |-> Len(h) + 1]
    [] OTHER -> [h |-> Append(h, Name(<<"_">> \o IntToStr(c), TRUE, s)),
                 c |-> c + 1, id |-> Len(h) + 1]

\* whether toast(s) mints a synthetic name (its catch-all case)
Mints(s) == s.t \notin {"Node", "str", "int"}

(***************************************************************************)
(* Environment Builder.                                                    *)
(***************************************************************************)
\* ast.walk: breadth-first, children in field order
RECURSIVE walk(_, _)
walk(h, todo) ==
  IF todo = <<>> THEN <<>>
  ELSE <<Head(todo)>> \o walk(h, Tail(todo) \o ExprChildren(h[Head(todo)]))

\* env.setdefault(name, value): a name already bound keeps its binding
Bind_setdefault(env, name, value) ==
  [n \in DOMAIN env \cup {name} |-> IF n \in DOMAIN env THEN env[n] ELSE value]

\* env[name] = value
Bind(env, name, value) ==
  [n \in DOMAIN env \cup {name} |-> IF n = name THEN value ELSE env[n]]

RECURSIVE EnvFold(_, _, _)
EnvFold(h, ids, env) ==
  IF ids = <<>> THEN env
  ELSE LET nd == h[Head(ids)]
       IN EnvFold(h, Tail(ids),
                  IF nd.kind = "Name" /\ nd.value # Unset
                  THEN Bind(env, nd.id, nd.value) ELSE env)

build_env(h, id, env) == EnvFold(h, walk(h, <<id>>), env)

EmptyEnv == [n \in {} |-> Unset]

(***************************************************************************)
(* Evaluator.  A result is a value or an exception v together with n, the  *)
(* number of synthetic names minted while computing it.                    *)
(***************************************************************************)
R(v, n) == [v |-> v, n |-> n]

\* the names eval(code, None, env) resolves outside env: globals and builtins
Ambient == (<<"a", "b", "s">> :> Abs)

RECURSIVE BitAnd(_, _)
BitAnd(a, b) ==
  IF a = 0 \/ b = 0 THEN 0
  ELSE (a % 2) * (b % 2) + 2 * BitAnd(a \div 2, b \div 2)

\* how many of the values in vs toast() turns into a fresh synthetic leaf
RECURSIVE MintCount(_)
MintCount(vs) ==
  IF vs = <<>> THEN 0
  ELSE (IF Mints(Head(vs)) THEN 1 ELSE 0) + MintCount(Tail(vs))

RECURSIVE evalExpr(_, _, _, _)
RECURSIVE evalSeq(_, _, _, _)
RECURSIVE apply(_, _, _)

\* f(*args) for host values
apply(h, f, args) ==
  CASE f.t = "Node" -> R(TmpNode, MintCount(args))
    [] f.t = "builtin" ->
         IF Len(args) = 1 /\ args[1].t = "int" THEN R(args[1], 0)
         ELSE R(TypeError, 0)
    [] f.t = "lambda" /\ f.code = "dbl" ->
         IF Len(args) = 1 /\ args[1].t = "int" THEN R(IntV(2 * args[1].n), 0)
         ELSE R(TypeError, 0)
    [] f.t = "lambda" /\ f.code = "ast" ->
         LET lm == h[f.ast]
         IN IF Len(args) # Len(lm.params) THEN R(TypeError, 0)
            ELSE LET names == {lm.params[i] : i \in 1..Len(args)}
                     pos(n) == CHOOSE i \in 1..Len(args) : lm.params[i] = n
                     loc == [n \in DOMAIN f.env \cup names |->
                               IF n \in names THEN args[pos(n)] ELSE f.env[n]]
                 IN evalExpr(h, loc, FALSE, lm.body)
    [] OTHER -> R(TypeError, 0)

\* left & right for host values
and_values(l, r) ==
  CASE l.t = "int" /\ r.t = "int" -> R(IntV(BitAnd(l.n, r.n)), 0)
    [] l.t = "Node" -> R(TmpNode, MintCount(<<r>>))
    [] OTHER -> R(TypeError, 0)

\* the values of the expressions ids, left to right, up to the first exception
evalSeq(h, loc, top, ids) ==
  IF ids = <<>> THEN [v |-> None, vs |-> <<>>, n |-> 0]
  ELSE LET first == evalExpr(h, loc, top, Head(ids))
       IN IF IsError(first.v) THEN [v |-> first.v, vs |-> <<>>, n |-> first.n]
          ELSE LET rest == evalSeq(h, loc, top, Tail(ids))
               IN [v |-> rest.v, vs |-> <<first.v>> \o rest.vs,
                   n |-> first.n + rest.n]

\* evaluation of the expression h[id]; loc are the local names (the
\* environment at the top level, the parameters inside a lambda body)
evalExpr(h, loc, top, id) ==
  LET nd == h[id]
  IN CASE nd.kind = "Constant" -> R(IntV(nd.n), 0)
       [] nd.kind = "Name" ->
            IF nd.id \in DOMAIN loc THEN R(loc[nd.id], 0)
            ELSE IF nd.id \in DOMAIN Ambient THEN R(Ambient[nd.id], 0)
            ELSE R(NameError, 0)
       [] nd.kind = "Lambda" ->
            R(Closure(id, IF top THEN EmptyEnv ELSE loc), 0)
       [] nd.kind = "Call" ->
            LET f == evalExpr(h, loc, top, nd.func)
            IN IF IsError(f.v) THEN f
               ELSE LET as == evalSeq(h, loc, top, nd.args)
                    IN IF IsError(as.v) THEN R(as.v, f.n + as.n)
                       ELSE LET r == apply(h, f.v, as.vs)
                            IN R(r.v, f.n + as.n + r.n)
       [] nd.kind = "BinOp" ->
            LET l == evalExpr(h, loc, top, nd.left)
            IN IF IsError(l.v) THEN l
               ELSE LET r == evalExpr(h, loc, top, nd.right)
                    IN IF IsError(r.v) THEN R(r.v, l.n + r.n)
                       ELSE LET a == and_values(l.v, r.v)
                            IN R(a.v, l.n + r.n + a.n)

\* asteval(node, env): leaf bindings are merged over env, then eval
asteval(h, id, env) == evalExpr(h, build_env(h, id, env), TRUE, id)

(***************************************************************************)
(* Unparser.  ast.unparse keeps a precedence per node object               *)
(* (set_precedence / get_precedence, default TEST) and parenthesises a     *)
(* BinOp or Lambda whose recorded precedence is higher than its own.       *)
(***************************************************************************)
PrecOrder == <<"TEST", "BAND", "SHIFT", "ATOM">>

Rank(p) == CHOOSE i \in 1..Len(PrecOrder) : PrecOrder[i] = p

Write(st, s) == [st EXCEPT !.out = @ \o s]

SetPrecedence(st, p, id) == [st EXCEPT !.prec[id] = p]

RECURSIVE traverse(_, _, _)
RECURSIVE traverseArgs(_, _, _, _)

traverseArgs(h, st, ids, comma) ==
  IF ids = <<>> THEN st
  ELSE LET s1 == IF comma THEN Write(st, <<",", " ">>) ELSE st
       IN traverseArgs(h, traverse(h, s1, Head(ids)), Tail(ids), TRUE)

traverse(h, st, id) ==
  LET nd == h[id]
  IN CASE nd.kind = "Name" -> Write(st, nd.id)
       [] nd.kind = "Constant" -> Write(st, IntToStr(nd.n))
       [] nd.kind = "Call" ->
            LET s1 == traverse(h, SetPrecedence(st, "ATOM", nd.func), nd.func)
                s2 == traverseArgs(h, Write(s1, <<"(">>), nd.args, FALSE)
            IN Write(s2, <<")">>)
       [] nd.kind = "BinOp" ->
            LET parens == Rank(st.prec[id]) > Rank("BAND")
                s0 == IF parens THEN Write(st, <<"(">>) ELSE st
                s1 == traverse(h, SetPrecedence(s0, "BAND", nd.left), nd.left)
                s2 == Write(s1, <<" ", "&", " ">>)
                s3 == traverse(h, SetPrecedence(s2, "SHIFT", nd.right), nd.right)
            IN IF parens THEN Write(s3, <<")">>) ELSE s3
       [] nd.kind = "Lambda" ->
            LET parens == Rank(st.prec[id]) > Rank("TEST")
                s0 == IF parens THEN Write(st, <<"(">>) ELSE st
                s1 == Write(s0, <<"l", "a", "m", "b", "d", "a">>)
                s2 == IF nd.params = <<>> THEN s1
                      ELSE Write(s1, <<" ">> \o Join(nd.params))
                s3 == Write(s2, <<":", " ">>)
                s4 == traverse(h, SetPrecedence(s3, "TEST", nd.body), nd.body)
            IN IF parens THEN Write(s4, <<")">>) ELSE s4

\* unparse(node): the rendering of h[id]
unparse(h, id) ==
  traverse(h, [out |-> <<>>, prec |-> [i \in 1..Len(h) |-> "TEST"]], id).out

(***************************************************************************)
(* Node facade.                                                            *)
(***************************************************************************)
BoolV(b) == [t |-> "bool", b |-> b]

\* is_concrete with its test inverted
is_concrete_inverted(v) == v.t \in {"lambda", "Node"}

\* is_concrete(node): not a Node and not a lambda
is_concrete(v) == v.t \notin {"lambda", "Node"}

\* Node.value getter
Node_value(h, id) == IF h[id].value = Unset THEN None ELSE h[id].value

\* Node.value setter
Node_set_value(h, id, v) == [h EXCEPT ![id].value = v]

\* __eq__ comparing the attached values as well as the renderings
Node_eq_values(h, a, other) ==
  /\ other.t = "Node"
  /\ unparse(h, a) = unparse(h, other.ast)
  /\ Node_value(h, a) = Node_value(h, other.ast)

\* Node.__eq__(self, other) for a Node on h[a] and a host value other
Node_eq(h, a, other) ==
  other.t = "Node" /\ unparse(h, a) = unparse(h, other.ast)

\* Node.children(): Nodes on the ast.expr children
children(h, id) == ExprChildren(h[id])

\* r with n more names minted
Minted(r, n) == R(r.v, r.n + n)

\* the values first and then rest, and the names minted for them
Cons(first, rest) ==
  [v |-> rest.v, vs |-> <<first.v>> \o rest.vs, n |-> first.n + rest.n]

RECURSIVE astevalEach(_, _)

\* [asteval(arg) for arg in args] once the first of ids has given first
astevalRest(h, ids, first) ==
  IF IsError(first.v) THEN [v |-> first.v, vs |-> <<>>, n |-> first.n]
  ELSE Cons(first, astevalEach(h, Tail(ids)))

\* asteval of each of ids on its own, up to the first exception
astevalEach(h, ids) ==
  IF ids = <<>> THEN [v |-> None, vs |-> <<>>, n |-> 0]
  ELSE astevalRest(h, ids, asteval(h, Head(ids), EmptyEnv))

\* any(isinstance(arg, Node) for arg in args), as the outcome of the test,
\* for the evaluated arguments as
ArgsTest(as) ==
  IF IsError(as.v) THEN R(as.v, as.n)
  ELSE R(BoolV(\A i \in 1..Len(as.vs) : as.vs[i].t # "Node"), as.n)

\* the test on a Call node once its function position has given f
FuncTest(h, nd, f) ==
  IF IsError(f.v) THEN f
  ELSE IF is_concrete(f.v)
  THEN Minted(ArgsTest(astevalEach(h, nd.args)), f.n)
  ELSE R(BoolV(TRUE), f.n)

\* the test are_calls_concrete makes on a Call node before it descends:
\* BoolV(FALSE) when it returns False there, BoolV(TRUE) when it goes on
CallTest(h, nd) == FuncTest(h, nd, asteval(h, nd.func, EmptyEnv))

RECURSIVE are_calls_concrete(_, _)
RECURSIVE AllConcrete(_, _)

\* all(...) once the first of ids has given first
AllRest(h, ids, first) ==
  IF first.v # BoolV(TRUE) THEN first
  ELSE Minted(AllConcrete(h, Tail(ids)), first.n)

\* all(child.are_calls_concrete() for child in ...): stops at the first False
AllConcrete(h, ids) ==
  IF ids = <<>> THEN R(BoolV(TRUE), 0)
  ELSE AllRest(h, ids, are_calls_concrete(h, Head(ids)))

\* are_calls_concrete once the match statement has given test
Descend(h, id, test) ==
  IF test.v # BoolV(TRUE) THEN test
  ELSE Minted(AllConcrete(h, children(h, id)), test.n)

are_calls_concrete(h, id) ==
  IF h[id].kind = "Lambda" THEN R(BoolV(TRUE), 0)
  ELSE Descend(h, id, IF h[id].kind = "Call" THEN CallTest(h, h[id])
                      ELSE R(BoolV(TRUE), 0))

\* Node(val) for a host closure val, as Node.eval calls it: Node.__init__
\* calls make_lambda, a name node.py neither defines nor imports
Node_of_lambda(val) == NameError

\* the return of eval() once the check has given c and asteval has given val
Returned(c, val) ==
  LET ret == IF val.v.t = "lambda" THEN Node_of_lambda(val.v) ELSE val.v
  IN [v |-> IF ret = NameError THEN None ELSE ret,
      n |-> c.n + val.n, invoked |-> TRUE]

\* the return of eval() with no try/except around it
ReturnedUncaught(c, val) ==
  [v |-> IF val.v.t = "lambda" THEN Node_of_lambda(val.v) ELSE val.v,
   n |-> c.n + val.n, invoked |-> TRUE]

\* the return of eval() with except Exception around it
ReturnedCatchAll(c, val) ==
  LET ret == IF val.v.t = "lambda" THEN Node_of_lambda(val.v) ELSE val.v
  IN [v |-> IF IsError(ret) THEN None ELSE ret,
      n |-> c.n + val.n, invoked |-> TRUE]

\* eval() once are_calls_concrete has given c
Checked(h, id, c) ==
  IF c.v = NameError THEN [v |-> None, n |-> c.n, invoked |-> FALSE]
  ELSE IF IsError(c.v) THEN [v |-> c.v, n |-> c.n, invoked |-> FALSE]
  ELSE IF c.v = BoolV(FALSE) THEN [v |-> None, n |-> c.n, invoked |-> FALSE]
  ELSE Returned(c, asteval(h, id, EmptyEnv))

\* the same with except Exception
CheckedCatchAll(h, id, c) ==
  IF IsError(c.v) \/ c.v = BoolV(FALSE)
  THEN [v |-> None, n |-> c.n, invoked |-> FALSE]
  ELSE ReturnedCatchAll(c, asteval(h, id, EmptyEnv))

\* the same with no try/except
CheckedUncaught(h, id, c) ==
  IF IsError(c.v) THEN [v |-> c.v, n |-> c.n, invoked |-> FALSE]
  ELSE IF c.v = BoolV(FALSE) THEN [v |-> None, n |-> c.n, invoked |-> FALSE]
  ELSE ReturnedUncaught(c, asteval(h, id, EmptyEnv))

\* eval() without the concreteness short-circuit
Node_eval_unguarded(h, id) ==
  Returned(R(BoolV(TRUE), 0), asteval(h, id, EmptyEnv))

\* eval() catching every exception instead of NameError alone
Node_eval_catch_all(h, id) ==
  CheckedCatchAll(h, id, are_calls_concrete(h, id))

\* eval() without its try/except
Node_eval_uncaught(h, id) ==
  CheckedUncaught(h, id, are_calls_concrete(h, id))

\* Node.eval(): v is the value returned or the exception raised, n the names
\* minted, invoked whether asteval ran on the whole tree
Node_eval(h, id) == Checked(h, id, are_calls_concrete(h, id))

(***************************************************************************)
(* Capture-avoiding lambda lifter (lambda_utils.py).                       *)
(***************************************************************************)
Range(f) == {f[i] : i \in DOMAIN f}

\* star_union(it): the union of the sets of an iterable
star_union(sets_) == UNION sets_

\* free_vars(node) for the node h[id]
RECURSIVE free_vars(_, _)
free_vars(h, id) ==
  LET nd == h[id]
  IN CASE nd.kind = "Name" -> {nd.id}
       [] nd.kind = "Lambda" -> free_vars(h, nd.body) \ Range(nd.params)
       [] OTHER -> star_union({free_vars(h, c) : c \in Range(ExprChildren(nd))})

\* the while loop of fresh: i and candidate when it ends
RECURSIVE fresh_loop(_, _, _, _)
fresh_loop(stem, i, candidate, taken) ==
  IF candidate \in taken
  THEN fresh_loop(stem, i + 1, stem \o IntToStr(i + 1), taken)
  ELSE [i |-> i, candidate |-> candidate]

\* fresh numbering from the whole base, its trailing digits kept
fresh_no_strip(base, taken) == fresh_loop(base, 0, base, taken).candidate

\* fresh(base, taken)
fresh(base, taken) == fresh_loop(rstrip(base), 0, base, taken).candidate

\* free_vars(v) for each closed-over value v in turn; toast reifies v first
RECURSIVE free_in_values(_, _, _)
free_in_values(h, c, values) ==
  IF values = <<>> THEN [h |-> h, c |-> c, free |-> {}]
  ELSE LET t == toast(h, c, Head(values))
           rest == free_in_values(t.h, t.c, Tail(values))
       IN [h |-> rest.h, c |-> rest.c,
           free |-> free_vars(t.h, t.id) \cup rest.free]

\* the renaming loop testing the parameter against taken
rename_taken(args, free_in_closure, taken) ==
  [i \in 1..Len(args) |->
     IF args[i] \in taken THEN fresh(args[i], taken) ELSE args[i]]

\* the renaming loop of make_lambda over the parameter list
rename(args, free_in_closure, taken) ==
  [i \in 1..Len(args) |->
     IF args[i] \in free_in_closure THEN fresh(args[i], taken) ELSE args[i]]

\* inputs = [Node(arg) for arg in args]; for x in inputs: x.value = x
RECURSIVE make_inputs(_, _, _)
make_inputs(h, c, args) ==
  IF args = <<>> THEN [h |-> h, c |-> c, ids |-> <<>>]
  ELSE LET t == toast(h, c, StrV(Head(args)))
           h1 == Node_set_value(t.h, t.id, NodeV(t.id))
           rest == make_inputs(h1, t.c, Tail(args))
       IN [h |-> rest.h, c |-> rest.c, ids |-> <<t.id>> \o rest.ids]

\* lamb(*inputs) for the closures of the model: the first input combined by
\* & with each closed-over value and each global the closure refers to
RECURSIVE run_closure(_, _, _, _)
run_closure(h, c, acc, values) ==
  IF values = <<>> THEN [h |-> h, c |-> c, id |-> acc]
  ELSE LET t == toast(h, c, Head(values))
           h1 == Append(t.h, BinOp(acc, t.id))
       IN run_closure(h1, t.c, Len(h1), Tail(values))

\* body = Node(lamb(*inputs)) for the inputs made
call_closure(cl, inputs) ==
  run_closure(inputs.h, inputs.c, inputs.ids[1],
              cl.nonlocals \o [i \in DOMAIN cl.globs |-> cl.globs[i].value])

\* return ast.Lambda(args=..., body=body.ast)
emit(f, taken, args, body) ==
  [h |-> Append(body.h, Lambda(args, body.id)), c |-> body.c,
   id |-> Len(body.h) + 1, free |-> f.free, taken |-> taken]

\* make_lambda from the renamed parameter list args on
lift(cl, f, taken, args) ==
  emit(f, taken, args, call_closure(cl, make_inputs(f.h, f.c, args)))

\* make_lambda once free_in_closure has been computed
lift_free(cl, f) ==
  LET globs == {cl.globs[i].name : i \in DOMAIN cl.globs}
      taken == f.free \cup globs \cup Range(cl.params)
  IN lift(cl, f, taken, rename(cl.params, f.free, taken))

\* make_lambda(lamb): cl gives the parameter names of the closure, its
\* closed-over values and its globals (signature, getclosurevars)
make_lambda(h, c, cl) == lift_free(cl, free_in_values(h, c, cl.nonlocals))

(***************************************************************************)
(* The inputs the operations are given.                                    *)
(***************************************************************************)
TextX == <<"x">>
TextAbs == <<"a", "b", "s">>
TextUnderscore0 == <<"_", "0">>
TextLambda == <<"l", "a", "m", "b", "d", "a", " ", "v", ":", " ", "v">>

\* what Node(...) is constructed from, where trees are evaluated
EvalSources == {IntV(3), Obj, StrV(TextX), StrV(TextAbs), StrV(TextLambda)}

\* what Node(...) is constructed from, where trees are composed and compared
ComposeSources == {IntV(3), Obj, StrV(TextX), StrV(TextUnderscore0)}

Ids == 1..Len(heap)

\* what an operator is applied to
Operands == {NodeV(i) : i \in Ids}

\* what the value of the leaf h[id] is set to: the Node itself (a
\* placeholder, as make_lambda makes them) or the host closure lambda v: v * 2
Attachable(id) == {NodeV(id), Dbl}

ArgLists == UNION {[1..n -> Operands] : n \in 0..MaxArgs}

Idle == [op |-> "idle"]

(***************************************************************************)
(* Operations.                                                             *)
(***************************************************************************)
\* toast applied to each of the operands in turn
RECURSIVE toastAll(_, _, _)
toastAll(h, c, operands) ==
  IF operands = <<>> THEN [h |-> h, c |-> c, ids |-> <<>>]
  ELSE LET first == toast(h, c, Head(operands))
           rest == toastAll(first.h, first.c, Tail(operands))
       IN [h |-> rest.h, c |-> rest.c, ids |-> <<first.id>> \o rest.ids]

\* Node.__call__(self, *args) on the Node of h[f]
Node_call(h, c, f, args) ==
  LET r == toastAll(h, c, args)
  IN [h |-> Append(r.h, Call(f, r.ids)), c |-> r.c, id |-> Len(r.h) + 1]

\* __and__ caching the composed Node on its left operand
Node_and_caching(h, c, a, other) ==
  LET r == toast(h, c, other)
      h1 == Node_set_value(r.h, a, NodeV(Len(r.h) + 1))
  IN [h |-> Append(h1, BinOp(a, r.id)), c |-> r.c, id |-> Len(r.h) + 1]

\* Node.__and__(self, other) on the Node of h[a]
Node_and(h, c, a, other) ==
  LET r == toast(h, c, other)
  IN [h |-> Append(r.h, BinOp(a, r.id)), c |-> r.c, id |-> Len(r.h) + 1]

\* the heap and the counter become those of r, within the bounds; the
\* evaluations logged were of the trees before this one
Allocate(r) ==
  /\ Len(r.h) <= MaxNodes
  /\ r.c <= MaxCounter
  /\ heap' = r.h
  /\ counter' = r.c
  /\ log' = <<>>
  /\ eqres' = Idle
  /\ benv' = Idle

\* Node(s): Node.__init__ with no value
NodeNew(sources) ==
  \E s \in sources :
    /\ Allocate(toast(heap, counter, s))
    /\ UNCHANGED <<sets, lam, fr>>

\* self(*args)
CallOp ==
  \E f \in Ids, args \in ArgLists :
    /\ Allocate(Node_call(heap, counter, f, args))
    /\ UNCHANGED <<sets, lam, fr>>

\* self & other
AndOp ==
  \E a \in Ids, other \in Operands :
    /\ Allocate(Node_and(heap, counter, a, other))
    /\ UNCHANGED <<sets, lam, fr>>

\* node.value = v, for the Node of an identifier leaf
SetValue ==
  \E id \in Ids :
    \E v \in Attachable(id) :
      /\ sets < MaxSets
      /\ heap[id].kind = "Name"
      /\ heap[id].value # v
      /\ heap' = Node_set_value(heap, id, v)
      /\ sets' = sets + 1
      /\ benv' = Idle
      /\ UNCHANGED <<counter, log, eqres, lam, fr>>

\* what one call of eval() on the Node of h[id], returning e, is seen to do
Observed(h, id, e) ==
  [node |-> id, res |-> e.v, invoked |-> e.invoked, n |-> e.n,
   conc |-> are_calls_concrete(h, id).v,
   env |-> build_env(h, id, EmptyEnv)]

Observation(h, id) == Observed(h, id, Node_eval(h, id))

\* the call observed as o is the last of the window, and the names it
\* minted are used up
Record(o) ==
  /\ counter + o.n <= MaxCounter
  /\ log' = Append(IF Len(log) < MaxLog THEN log ELSE Tail(log), o)
  /\ counter' = counter + o.n

\* node.eval(), for the Node built last
Eval ==
  /\ heap # <<>>
  /\ Record(Observation(heap, Len(heap)))
  /\ UNCHANGED <<heap, sets, eqres, lam, fr, benv>>

\* self == other, for the Node built last
Eq ==
  \E other \in Operands \cup {IntV(3)} :
    /\ heap # <<>>
    /\ eqres' = [op |-> "eq", a |-> Len(heap), other |-> other,
                 res |-> Node_eq(heap, Len(heap), other)]
    /\ UNCHANGED <<heap, counter, sets, log, lam, fr, benv>>

Init ==
  /\ heap = <<>>
  /\ counter = 0
  /\ sets = 0
  /\ log = <<>>
  /\ eqres = Idle
  /\ lam = Idle
  /\ fr = Idle
  /\ benv = Idle

EvalNodeNew == NodeNew(EvalSources)

Next == EvalNodeNew \/ CallOp \/ AndOp \/ SetValue \/ Eval

Spec == Init /\ [][Next]_vars

ComposeNodeNew == NodeNew(ComposeSources)

NextCompose == ComposeNodeNew \/ CallOp \/ AndOp \/ SetValue \/ Eq

SpecCompose == Init /\ [][NextCompose]_vars

\* what Node(...) is constructed from, where environments are built
EnvSources == {Obj, StrV(TextX), StrV(TextUnderscore0)}

\* the environments a caller hands to asteval(node, env)
SuppliedEnvs ==
  {EmptyEnv, (TextX :> IntV(3)), (TextUnderscore0 :> IntV(3)),
   (TextX :> IntV(3)) @@ (TextUnderscore0 :> IntV(3))}

\* build_env(node, env) as asteval(node, env) calls it, for the Node built
\* last: res is the environment eval is then given
BuildEnv ==
  \E env \in SuppliedEnvs :
    /\ heap # <<>>
    /\ benv' = [op |-> "build_env", node |-> Len(heap), env |-> env,
                res |-> build_env(heap, Len(heap), env)]
    /\ UNCHANGED <<heap, counter, sets, log, eqres, lam, fr>>

EnvNodeNew == NodeNew(EnvSources)

NextEnv == EnvNodeNew \/ CallOp \/ AndOp \/ SetValue \/ BuildEnv

SpecEnv == Init /\ [][NextEnv]_vars

(***************************************************************************)
(* The lambda lifter applied to closures over Nodes built from text, and   *)
(* fresh applied to names and sets of taken names.                         *)
(***************************************************************************)
NameA == <<"a">>
NameA1 == <<"a", "1">>
NameA2 == <<"a", "2">>
NameA3 == <<"a", "3">>
NameA10 == <<"a", "1", "0">>
NameB == <<"b">>
TextLambdaBA == <<"l", "a", "m", "b", "d", "a", " ", "b", ":", " ", "a">>

\* what the closed-over Nodes are constructed from
CapturedSources == {StrV(NameA), StrV(NameA1), StrV(NameB), StrV(TextLambdaBA)}

ParamNames == {NameA, NameA1, NameB}

TakenNames == {NameA, NameA1, NameA2, NameA3, NameA10, NameB}

BaseNames == {NameA, NameA1, NameA10, NameB}

\* sequences of length 1..n of distinct elements of S
DistinctSeqs(S, n) ==
  {q \in UNION {[1..k -> S] : k \in 1..n} :
     \A i, j \in DOMAIN q : i # j => q[i] # q[j]}

\* the closures lifted: parameters, closed-over values, globals referred to
Closures ==
  [params : DistinctSeqs(ParamNames, MaxParams),
   nonlocals : {<<>>} \cup DistinctSeqs(Operands \cup {Obj}, 2),
   globs : {<<>>, <<[name |-> NameA2, value |-> IntV(3)]>>}]

\* the heap and the counter become those of r, within the bound
Capture(r) ==
  /\ Len(r.h) <= MaxCaptured
  /\ heap' = r.h
  /\ counter' = r.c

\* Node(s) for a Node that a closure will close over
LamNodeNew ==
  \E s \in CapturedSources :
    /\ lam = Idle /\ fr = Idle
    /\ Capture(toast(heap, counter, s))
    /\ UNCHANGED <<sets, log, eqres, lam, fr, benv>>

\* the closure cl was lifted, with the outcome r
Lifted(cl, r) ==
  /\ heap' = r.h
  /\ counter' = r.c
  /\ lam' = [op |-> "make_lambda", closure |-> cl, out |-> r.id,
             free |-> r.free, taken |-> r.taken]

\* make_lambda(lamb)
MakeLambda ==
  \E cl \in Closures :
    /\ lam = Idle /\ fr = Idle
    /\ Lifted(cl, make_lambda(heap, counter, cl))
    /\ UNCHANGED <<sets, log, eqres, fr, benv>>

\* fresh(base, taken)
Fresh ==
  \E base \in BaseNames, taken \in SUBSET TakenNames :
    /\ heap = <<>> /\ fr = Idle
    /\ Cardinality(taken) <= MaxTaken
    /\ fr' = [op |-> "fresh", base |-> base, taken |-> taken,
              res |-> fresh(base, taken)]
    /\ UNCHANGED <<heap, counter, sets, log, eqres, lam, benv>>

NextLambda == LamNodeNew \/ MakeLambda \/ Fresh

SpecLambda == Init /\ [][NextLambda]_vars

(***************************************************************************)
(* Properties.                                                             *)
(***************************************************************************)
Calls == {id \in Ids : heap[id].kind = "Call"}

Symbolic(v) == v.t \in {"Node", "lambda"}

\* the value of the function position of the Call heap[id], evaluated alone
FuncValue(id) == asteval(heap, heap[id].func, EmptyEnv).v

\* the values of the arguments of the Call heap[id], each evaluated alone
ArgValues(id) ==
  [i \in DOMAIN heap[id].args |-> asteval(heap, heap[id].args[i], EmptyEnv).v]

Concrete(id) == are_calls_concrete(heap, id).v = BoolV(TRUE)

\* an argument of the Call heap[id] is an unresolved placeholder
HasPlaceholderArg(id) ==
  \E i \in DOMAIN heap[id].args :
    LET a == heap[heap[id].args[i]]
    IN a.kind = "Name" /\ a.value.t = "Node"

LastEval == log[Len(log)]

IsObjOf3(id) ==
  /\ id \in Calls
  /\ heap[heap[id].func].kind = "Name"
  /\ heap[heap[id].func].syn
  /\ Len(heap[id].args) = 1
  /\ heap[heap[id].args[1]] = Constant(3)

\* what the leaf obj was bound to when the evaluation e was made
ObjValue(e) == e.env[heap[heap[e.node].func].id]

\* C3 as stated: while obj is the opaque value, the concreteness check of
\* obj(3) fails and eval() yields None; once obj's value is lambda v: v * 2,
\* eval() of the same tree yields 6.
C3_AsStated ==
  \A i \in DOMAIN log :
    IsObjOf3(log[i].node) =>
      /\ ObjValue(log[i]) = Obj =>
           log[i].conc = BoolV(FALSE) /\ log[i].res = None
      /\ ObjValue(log[i]) = Dbl => log[i].res = IntV(6)

\* C3 amended: while obj is the opaque (not callable) value, the concreteness
\* check of obj(3) passes and eval() raises TypeError; once obj's value is
\* lambda v: v * 2, eval() of the same tree yields 6.
C3_EndToEnd ==
  \A i \in DOMAIN log :
    IsObjOf3(log[i].node) =>
      /\ ObjValue(log[i]) = Obj =>
           log[i].conc = BoolV(TRUE) /\ log[i].res = TypeError
      /\ ObjValue(log[i]) = Dbl => log[i].res = IntV(6)

\* obj(3) was evaluated with obj opaque, then again, not rebuilt, with obj
\* set to lambda v: v * 2
C3_Witness ==
  /\ Len(log) = 2
  /\ IsObjOf3(log[1].node)
  /\ log[2].node = log[1].node
  /\ ObjValue(log[1]) = Obj
  /\ log[1].res = TypeError
  /\ ObjValue(log[2]) = Dbl
  /\ log[2].res = IntV(6)

\* C9 as stated: when the concreteness check passes and the evaluator
\* returns a host closure, eval() returns a Node, never None.
C9_AsStated ==
  \A id \in Ids :
    (Concrete(id) /\ asteval(heap, id, EmptyEnv).v.t = "lambda")
    => Node_eval(heap, id).v.t = "Node"

\* the names of the identifier leaves of h[id] outside any lambda body
RECURSIVE OpenNames(_, _)
OpenNames(h, id) ==
  LET nd == h[id]
  IN CASE nd.kind = "Name" -> {nd.id}
       [] nd.kind = "Lambda" -> {}
       [] OTHER -> UNION {OpenNames(h, c) : c \in Range(ExprChildren(nd))}

\* the tree heap[id] has an identifier with no attached value and no
\* ambient binding
HasUnbound(id) ==
  \E n \in OpenNames(heap, id) :
    n \notin DOMAIN build_env(heap, id, EmptyEnv) /\ n \notin DOMAIN Ambient

\* C10 as stated: eval() of a tree with an unbound identifier returns None.
C10_AsStated ==
  \A id \in Ids : HasUnbound(id) => Node_eval(heap, id).v = None

\* C10 amended: eval() of a tree with an unbound identifier never raises the
\* unbound-name error: it returns None, or raises the TypeError of a
\* subexpression evaluated before the identifier is looked up.
C10_NoNameError ==
  \A id \in Ids :
    HasUnbound(id) => Node_eval(heap, id).v \in {None, TypeError}

\* eval() ran the evaluator on a binary operator or a call with an unbound
\* identifier and returned None
C10_Witness ==
  /\ log # <<>>
  /\ heap[LastEval.node].kind \in {"Call", "BinOp"}
  /\ HasUnbound(LastEval.node)
  /\ LastEval.invoked
  /\ LastEval.res = None

\* C6: a == b holds for two Nodes exactly when their renderings are equal,
\* whatever their attached values: equal text with different values is
\* equal, different text with the same value is unequal.
C6_TextualEquality ==
  (eqres # Idle /\ eqres.other.t = "Node") =>
    (eqres.res <=> unparse(heap, eqres.a) = unparse(heap, eqres.other.ast))

\* two distinct leaves of the same text and different attached values were
\* compared and found equal
C6_Witness ==
  /\ eqres # Idle
  /\ eqres.other.t = "Node"
  /\ eqres.other.ast # eqres.a
  /\ heap[eqres.a].value # heap[eqres.other.ast].value
  /\ eqres.res

\* C7 as stated: the synthetic name of a leaf made by reifying an opaque
\* value differs from the name of every identifier leaf created earlier.
C7_AsStated ==
  \A i, j \in Ids :
    (i < j /\ heap[i].kind = "Name" /\ heap[j].kind = "Name" /\ heap[j].syn)
    => heap[i].id # heap[j].id

\* C8: a step that builds a Call or BinOp node leaves every node that was
\* there as it was (same tree, same rendering, same attached value), and the
\* children of the new node are the operands' own trees.
C8_CompositionFrame ==
  [][ (Len(heap') = Len(heap) + 1 /\ heap'[Len(heap')].kind \in {"Call", "BinOp"})
      => /\ \A i \in 1..Len(heap) :
              /\ heap'[i] = heap[i]
              /\ unparse(heap', i) = unparse(heap, i)
              /\ Node_value(heap', i) = Node_value(heap, i)
         /\ \A c \in Range(ExprChildren(heap'[Len(heap')])) : c \in 1..Len(heap)
    ]_vars

\* a Call or BinOp node was built on an operand that carries a value
C8_Witness ==
  \E id \in Ids :
    /\ heap[id].kind \in {"Call", "BinOp"}
    /\ \E c \in Range(ExprChildren(heap[id])) : heap[c].value # Unset

\* the Lambda node make_lambda emitted
Emitted == heap[lam.out]

\* C4: make_lambda renames each parameter that is among the free
\* identifiers of the closed-over values to a name outside the taken set,
\* keeps every other parameter, and so no parameter of the emitted Lambda is
\* among those free identifiers.
C4_Hygiene ==
  lam # Idle =>
    LET cl == lam.closure
        free == lam.free
        taken == free \cup {cl.globs[i].name : i \in DOMAIN cl.globs}
                      \cup Range(cl.params)
    IN /\ Emitted.kind = "Lambda"
       /\ Len(Emitted.params) = Len(cl.params)
       /\ \A i \in DOMAIN cl.nonlocals :
            cl.nonlocals[i].t = "Node" =>
              free_vars(heap, cl.nonlocals[i].ast) \subseteq free
       /\ \A i \in DOMAIN cl.params :
            /\ cl.params[i] \in free => Emitted.params[i] \notin taken
            /\ cl.params[i] \notin free => Emitted.params[i] = cl.params[i]
            /\ Emitted.params[i] \notin free

\* lambda a, b: a & a_free, with a_free a tree with a leaf a, was lifted to
\* lambda a1, b: ...
C4_Witness ==
  /\ lam # Idle
  /\ lam.closure.params = <<NameA, NameB>>
  /\ NameA \in lam.free
  /\ Emitted.params = <<NameA1, NameB>>

\* C5: fresh(base, taken) returns a name not in taken: base when base is not
\* taken, else the stem of base followed by the smallest positive integer
\* that gives a name not in taken, found within |taken| + 1 steps.
C5_Fresh ==
  fr # Idle =>
    LET stem == rstrip(fr.base)
    IN /\ fr.res \notin fr.taken
       /\ fr.base \notin fr.taken => fr.res = fr.base
       /\ fr.base \in fr.taken =>
            \E i \in 1..(Cardinality(fr.taken) + 1) :
              /\ fr.res = stem \o IntToStr(i)
              /\ \A j \in 1..(i - 1) : stem \o IntToStr(j) \in fr.taken

\* fresh('a', {a, a1, a2}) was computed and gave a3
C5_Witness ==
  /\ fr # Idle
  /\ fr.base = NameA
  /\ fr.taken = {NameA, NameA1, NameA2}
  /\ fr.res = NameA3

\* the nodes of the tree of the environment built, in the order of the scan
Scan == walk(heap, <<benv.node>>)

\* the positions of the scan at which a leaf named n carries a value
ValuedAt(n) ==
  {i \in DOMAIN Scan : /\ heap[Scan[i]].kind = "Name"
                       /\ heap[Scan[i]].value # Unset
                       /\ heap[Scan[i]].id = n}

\* the names of the leaves of the scan that carry a value
ValuedNames ==
  {heap[Scan[i]].id : i \in {j \in DOMAIN Scan : /\ heap[Scan[j]].kind = "Name"
                                                 /\ heap[Scan[j]].value # Unset}}

\* C11: the environment asteval evaluates against binds exactly the names of
\* the valued leaves and of the supplied environment: the name of a valued
\* leaf to the value of the last such leaf of the scan, also when the
\* supplied environment binds it, and every other name as supplied.
C11_LastWriteWins ==
  benv # Idle =>
    /\ DOMAIN benv.res = ValuedNames \cup DOMAIN benv.env
    /\ \A n \in ValuedNames :
         \E i \in ValuedAt(n) :
           /\ \A j \in ValuedAt(n) : j <= i
           /\ benv.res[n] = heap[Scan[i]].value
    /\ \A n \in DOMAIN benv.env \ ValuedNames : benv.res[n] = benv.env[n]

\* an environment was built for a tree in which two leaves of one name carry
\* different values, the earlier one met first, with a supplied environment
\* that binds that name and a name no valued leaf carries
C11_Witness ==
  /\ benv # Idle
  /\ \E n \in ValuedNames \cap DOMAIN benv.env :
       /\ \E i, j \in ValuedAt(n) :
            i < j /\ heap[Scan[i]].value # heap[Scan[j]].value
       /\ benv.res[n] # benv.env[n]
  /\ \E n \in DOMAIN benv.env \ ValuedNames : benv.res[n] = benv.env[n]

\* C12 as stated: the parameter names of the Lambda node make_lambda emits
\* are pairwise distinct, also when several parameters are renamed in one
\* lifting.
C12_AsStated ==
  lam # Idle =>
    \A i, j \in DOMAIN Emitted.params :
      i # j => Emitted.params[i] # Emitted.params[j]

====
